---- MODULE Spec2Model ----
(***************************************************************************)
(* Model of src/calendars.rs: reading calendar.txt / calendar_dates.txt    *)
(* into a catalog of service calendars, and writing a catalog back.        *)
(*                                                                         *)
(* A Date is a day number; day 0 is a Monday, so the weekday of a date is  *)
(* its day number modulo 7.                                                *)
(***************************************************************************)
EXTENDS Integers, Sequences, FiniteSets, TLC

\* ---------------------------------------------------------------- bounds
\* Largest date of a weekly record checked on its own (SpecMat).
MaxDate == 9
\* Largest date of a row of the read path (Spec).
MaxPipeDate == 2
\* Most rows read from one input file (Spec).
MaxRows == 3
\* Most residual exceptions the Compressor returns for one service.
MaxExceptions == 2

Ids == {"s1", "s2"}
Dates == 0..MaxDate
PipeDates == 0..MaxPipeDate
\* The dates the Compressor returns (SpecWrite).
WriteDates == {0, 1}

\* ------------------------------------------------------------ data model
\* chrono::Weekday, in the order Mon..Sun.
Weekdays == <<"Mon", "Tue", "Wed", "Thu", "Fri", "Sat", "Sun">>

\* Datelike::weekday of a date.
weekday(d) == Weekdays[(d % 7) + 1]

\* struct Calendar: one row of calendar.txt.
Calendar(ids, flags, dates) ==
    [id : ids,
     monday : flags, tuesday : flags, wednesday : flags, thursday : flags,
     friday : flags, saturday : flags, sunday : flags,
     start_date : dates, end_date : dates]

\* A Calendar value for the places where none has been read yet.
NoCalendar ==
    [id |-> "", monday |-> FALSE, tuesday |-> FALSE, wednesday |-> FALSE,
     thursday |-> FALSE, friday |-> FALSE, saturday |-> FALSE,
     sunday |-> FALSE, start_date |-> 0, end_date |-> 0]

\* ExceptionType
ExceptionType == {"Add", "Remove"}

\* struct CalendarDate: one row of calendar_dates.txt.
CalendarDate(ids, dates) ==
    [service_id : ids, date : dates, exception_type : ExceptionType]

NoCalendarDate == [service_id |-> "", date |-> 0, exception_type |-> "None"]

\* The flag of a weekly record for the weekday of date d.
FlagOf(c, d) ==
    <<c.monday, c.tuesday, c.wednesday, c.thursday, c.friday, c.saturday,
      c.sunday>>[(d % 7) + 1]

\* ----------------------------------------------------------- Materializer
\* Calendar::get_valid_days: the flagged weekdays, pushed in the order
\* Mon..Sun.
get_valid_days(self) ==
    LET push(v, flag, day) == IF flag THEN Append(v, day) ELSE v
        v1 == push(<<>>, self.monday, "Mon")
        v2 == push(v1, self.tuesday, "Tue")
        v3 == push(v2, self.wednesday, "Wed")
        v4 == push(v3, self.thursday, "Thu")
        v5 == push(v4, self.friday, "Fri")
        v6 == push(v5, self.saturday, "Sat")
    IN  push(v6, self.sunday, "Sun")

\* Vec::contains
contains(v, x) == \E i \in 1..Len(v) : v[i] = x

\* Mutant of get_valid_dates: the range of offsets leaves out its last
\* element (0..duration instead of 0..=duration).
get_valid_dates_exclusive(self) ==
    LET valid_days == get_valid_days(self)
        duration == self.end_date - self.start_date
    IN  {d \in {self.start_date + i : i \in 0..(duration - 1)} :
            contains(valid_days, weekday(d))}

\* Calendar::get_valid_dates: start_date + i for every i of 0..=duration
\* whose weekday is one of the valid days, collected into a set.
get_valid_dates(self) ==
    LET valid_days == get_valid_days(self)
        duration == self.end_date - self.start_date
    IN  {d \in {self.start_date + i : i \in 0..duration} :
            contains(valid_days, weekday(d))}

\* ------------------------------------------------------------ the catalog
\* objects::Calendar: a service id and its set of dates.  A catalog
\* (CollectionWithId<objects::Calendar>) is the sequence of its calendars in
\* insertion order.
ids_of(calendars) == {calendars[i].id : i \in 1..Len(calendars)}

\* Mutant of get_mut: the lookup only finds the calendar inserted first.
get_mut_first_only(calendars, id) ==
    IF Len(calendars) > 0 /\ calendars[1].id = id THEN 1 ELSE 0

\* CollectionWithId::get_mut: the index of the calendar with this id, 0 for
\* None.
get_mut(calendars, id) ==
    IF \E i \in 1..Len(calendars) : calendars[i].id = id
    THEN CHOOSE i \in 1..Len(calendars) : calendars[i].id = id
    ELSE 0

\* CollectionWithId::push: an error when the id is already in the
\* collection, else the object is appended.
push(calendars, object) ==
    IF object.id \in ids_of(calendars)
    THEN [ok |-> FALSE, calendars |-> calendars]
    ELSE [ok |-> TRUE, calendars |-> Append(calendars, object)]

\* Mutant of parse_calendar_row: the calendar is pushed even when its
\* expansion is empty.
parse_calendar_row_keep_empty(calendars, calendar) ==
    push(calendars, [id |-> calendar.id, dates |-> get_valid_dates(calendar)])

\* parse_calendar, the body of its loop for one decoded row: the calendar
\* is pushed when its expansion is not empty; a failed push is the error
\* the function returns.
parse_calendar_row(calendars, calendar) ==
    LET dates == get_valid_dates(calendar)
    IN  IF dates # {}
        THEN push(calendars, [id |-> calendar.id, dates |-> dates])
        ELSE [ok |-> TRUE, calendars |-> calendars]

\* Mutant of parse_calendar_date: Add on a known service replaces its
\* dates by the one date, as the creation of a new service does.
parse_calendar_date_add_resets(calendars, calendar_date) ==
    LET i == get_mut(calendars, calendar_date.service_id)
    IN  IF i # 0
        THEN [panic |-> FALSE,
              calendars |->
                  [calendars EXCEPT ![i].dates =
                      IF calendar_date.exception_type = "Add"
                      THEN {calendar_date.date}
                      ELSE @ \ {calendar_date.date}]]
        ELSE IF calendar_date.exception_type = "Add"
             THEN LET r == push(calendars, [id |-> calendar_date.service_id,
                                            dates |-> {calendar_date.date}])
                  IN  [panic |-> ~r.ok, calendars |-> r.calendars]
             ELSE [panic |-> FALSE, calendars |-> calendars]

\* Mutant of parse_calendar_date: Remove on a known service clears its
\* dates instead of removing the one date.
parse_calendar_date_remove_clears(calendars, calendar_date) ==
    LET i == get_mut(calendars, calendar_date.service_id)
    IN  IF i # 0
        THEN [panic |-> FALSE,
              calendars |->
                  [calendars EXCEPT ![i].dates =
                      IF calendar_date.exception_type = "Add"
                      THEN @ \cup {calendar_date.date}
                      ELSE {}]]
        ELSE IF calendar_date.exception_type = "Add"
             THEN LET r == push(calendars, [id |-> calendar_date.service_id,
                                            dates |-> {calendar_date.date}])
                  IN  [panic |-> ~r.ok, calendars |-> r.calendars]
             ELSE [panic |-> FALSE, calendars |-> calendars]

\* Mutant of parse_calendar_date: a Remove that empties a calendar drops
\* the calendar from the catalog.
parse_calendar_date_drops_empty(calendars, calendar_date) ==
    LET i == get_mut(calendars, calendar_date.service_id)
    IN  IF i # 0
        THEN [panic |-> FALSE,
              calendars |->
                  IF calendar_date.exception_type = "Add"
                  THEN [calendars EXCEPT ![i].dates = @ \cup {calendar_date.date}]
                  ELSE IF calendars[i].dates \ {calendar_date.date} = {}
                       THEN SelectSeq(calendars,
                                LAMBDA c : c.id # calendar_date.service_id)
                       ELSE [calendars EXCEPT ![i].dates = @ \ {calendar_date.date}]]
        ELSE IF calendar_date.exception_type = "Add"
             THEN LET r == push(calendars, [id |-> calendar_date.service_id,
                                            dates |-> {calendar_date.date}])
                  IN  [panic |-> ~r.ok, calendars |-> r.calendars]
             ELSE [panic |-> FALSE, calendars |-> calendars]

\* parse_calendar_dates, the body of its loop for one decoded row.  A
\* known service gets the date inserted (Add) or removed (Remove); an
\* unknown one is created by an Add and left alone by a Remove.  The push
\* of the new calendar is unwrapped: its failure is a panic.
parse_calendar_date(calendars, calendar_date) ==
    LET i == get_mut(calendars, calendar_date.service_id)
    IN  IF i # 0
        THEN [panic |-> FALSE,
              calendars |->
                  [calendars EXCEPT ![i].dates =
                      IF calendar_date.exception_type = "Add"
                      THEN @ \cup {calendar_date.date}
                      ELSE @ \ {calendar_date.date}]]
        ELSE IF calendar_date.exception_type = "Add"
             THEN LET r == push(calendars, [id |-> calendar_date.service_id,
                                            dates |-> {calendar_date.date}])
                  IN  [panic |-> ~r.ok, calendars |-> r.calendars]
             ELSE [panic |-> FALSE, calendars |-> calendars]

\* ------------------------------------------------------------- Compressor
\* Option<ValidityPeriod>
None == [some |-> FALSE, start_date |-> 0, end_date |-> 0]
Some(start_date, end_date) ==
    [some |-> TRUE, start_date |-> start_date, end_date |-> end_date]

\* The weekday patterns a translation is drawn from.
Patterns == {{}, {"Mon"}, {"Tue", "Sun"}}

\* The residual exception lists a translation is drawn from.
ExceptionLists ==
    UNION {[1..n -> [date : WriteDates, exception_type : ExceptionType]] :
              n \in 0..MaxExceptions}

\* vptranslator::translate is not part of calendars.rs.  What it may return
\* (BlockPattern): a set of operating days, an optional validity period and
\* a list of residual exceptions, in any combination.
Translations ==
    [operating_days : Patterns,
     validity_period : {None, Some(0, 1)},
     exceptions : ExceptionLists]

Min(S) == CHOOSE x \in S : \A y \in S : x <= y
Max(S) == CHOOSE x \in S : \A y \in S : y <= x

\* The stub Compressor of the round trip: the weekdays that occur in the
\* date set, the range from its smallest to its largest date, no residual
\* exception; the default (empty) pattern for the empty set.
StubTranslate(dates) ==
    IF dates = {}
    THEN [operating_days |-> {}, validity_period |-> None, exceptions |-> <<>>]
    ELSE [operating_days |-> {weekday(d) : d \in dates},
          validity_period |-> Some(Min(dates), Max(dates)),
          exceptions |-> <<>>]

\* ------------------------------------------------------------- Serializer
\* Mutant of translation_row: end_date is taken from the period's start.
translation_row_start_twice(id, translation, validity_period) ==
    [id |-> id,
     monday |-> "Mon" \in translation.operating_days,
     tuesday |-> "Tue" \in translation.operating_days,
     wednesday |-> "Wed" \in translation.operating_days,
     thursday |-> "Thu" \in translation.operating_days,
     friday |-> "Fri" \in translation.operating_days,
     saturday |-> "Sat" \in translation.operating_days,
     sunday |-> "Sun" \in translation.operating_days,
     start_date |-> validity_period.start_date,
     end_date |-> validity_period.start_date]

\* The Calendar row write_calendar_dates builds from a translation.
translation_row(id, translation, validity_period) ==
    [id |-> id,
     monday |-> "Mon" \in translation.operating_days,
     tuesday |-> "Tue" \in translation.operating_days,
     wednesday |-> "Wed" \in translation.operating_days,
     thursday |-> "Thu" \in translation.operating_days,
     friday |-> "Fri" \in translation.operating_days,
     saturday |-> "Sat" \in translation.operating_days,
     sunday |-> "Sun" \in translation.operating_days,
     start_date |-> validity_period.start_date,
     end_date |-> validity_period.end_date]

\* The CalendarDate rows of a service's residual exceptions.
exception_rows(id, translation) ==
    [i \in 1..Len(translation.exceptions) |->
        [service_id |-> id,
         date |-> translation.exceptions[i].date,
         exception_type |-> translation.exceptions[i].exception_type]]

\* write_calendar_dates, the body of its loop for one service c whose
\* translation is given.  skip_error_and_log! on a missing validity period
\* logs and executes `continue`: the rest of the body, the loop over the
\* exceptions included, is skipped for this service.
write_calendar_dates_loop(acc, c, translation) ==
    IF translation.operating_days # {} /\ ~translation.validity_period.some
    THEN acc
    ELSE [translations |->
              IF translation.operating_days # {}
              THEN Append(acc.translations,
                          translation_row(c.id, translation,
                                          translation.validity_period))
              ELSE acc.translations,
          exceptions |-> acc.exceptions \o exception_rows(c.id, translation)]

\* What can go wrong with an output file: nothing, its creation
\* (csv::Writer::from_path), or a later serialize / flush.
Faults == {"none", "create", "write"}

\* Mutant of write_calendar: the early return on an empty list is missing.
write_calendar_always(files, calendars, fault) ==
    IF fault = "create" THEN [files |-> files, ok |-> FALSE]
    ELSE [files |-> files \cup {"calendar.txt"}, ok |-> fault = "none"]

\* write_calendar: nothing is done for an empty list; else calendar.txt is
\* created and the rows are serialized and flushed, each of which may fail.
write_calendar(files, calendars, fault) ==
    IF calendars = <<>> THEN [files |-> files, ok |-> TRUE]
    ELSE IF fault = "create" THEN [files |-> files, ok |-> FALSE]
    ELSE [files |-> files \cup {"calendar.txt"}, ok |-> fault = "none"]

\* write_calendar_dates after its loop: calendar_dates.txt is written when
\* there are exception rows; an error there returns before write_calendar
\* is called.
write_calendar_dates_files(files, acc, dates_fault, calendar_fault) ==
    IF acc.exceptions # <<>> /\ dates_fault = "create"
    THEN [files |-> files, ok |-> FALSE]
    ELSE IF acc.exceptions # <<>> /\ dates_fault = "write"
    THEN [files |-> files \cup {"calendar_dates.txt"}, ok |-> FALSE]
    ELSE write_calendar(
             IF acc.exceptions # <<>>
             THEN files \cup {"calendar_dates.txt"} ELSE files,
             acc.translations, calendar_fault)

\* ------------------------------------------------------------------ state
VARIABLES
    pc,                     \* where the operation under way stands
    calendar,               \* SpecMat: the weekly record
    dates,                  \* SpecMat: its expansion
    calendar_exists,        \* calendar.txt exists
    calendar_dates_exists,  \* calendar_dates.txt exists
    calendars,              \* the catalog being built, or being written
    collections,            \* collections.calendars
    prior,                  \* collections.calendars when manage_calendars is called
    nrows,                  \* rows read from the current file / services written
    row_status,             \* the last row read: malformed, empty (a weekly row
                            \* with no flagged day in its range) or ok
    calendar_date,          \* the last exception row decoded
    non_empty_ids,          \* ids of the weekly rows read whose range holds a flagged day
    installs,               \* assignments made to collections.calendars
    translation,            \* the Compressor's answer for the last service written
    written,                \* the rows built so far: translations and exceptions
    files,                  \* the output files created
    result                  \* what the operation returned

vars ==
    <<pc, calendar, dates, calendar_exists, calendar_dates_exists, calendars,
      collections, prior, nrows, row_status, calendar_date, non_empty_ids,
      installs, translation, written, files, result>>

NoTranslation ==
    [operating_days |-> {}, validity_period |-> None, exceptions |-> <<>>]

NothingWritten == [translations |-> <<>>, exceptions |-> <<>>]

\* ----------------------------------------------- SpecMat: one weekly record
read_vars ==
    <<calendar_exists, calendar_dates_exists, collections, prior, nrows,
      row_status, calendar_date, non_empty_ids, installs>>

InitMat ==
    /\ pc = "record"
    /\ calendar \in Calendar(Ids, BOOLEAN, Dates)
    /\ dates = {}
    /\ calendar_exists = FALSE
    /\ calendar_dates_exists = FALSE
    /\ calendars = <<>>
    /\ collections = <<>>
    /\ prior = <<>>
    /\ nrows = 0
    /\ row_status = "none"
    /\ calendar_date = NoCalendarDate
    /\ non_empty_ids = {}
    /\ installs = 0
    /\ translation = NoTranslation
    /\ written = NothingWritten
    /\ files = {}
    /\ result = "none"

\* Calendar::get_valid_dates on the record.
Materialize ==
    /\ pc = "record"
    /\ dates' = get_valid_dates(calendar)
    /\ pc' = "materialized"
    /\ UNCHANGED <<calendar, calendars, translation, written, files, result>>
    /\ UNCHANGED read_vars

\* The service made of the expansion goes through the loop body of
\* write_calendar_dates, with the stub Compressor.
RoundTrip ==
    /\ pc = "materialized"
    /\ translation' = StubTranslate(dates)
    /\ written' = write_calendar_dates_loop(
                      NothingWritten, [id |-> calendar.id, dates |-> dates],
                      translation')
    /\ pc' = "written"
    /\ UNCHANGED <<calendar, dates, calendars, files, result>>
    /\ UNCHANGED read_vars

NextMat == Materialize \/ RoundTrip

SpecMat == InitMat /\ [][NextMat]_vars

\* ------------------------------------------------ Spec: manage_calendars
mat_vars == <<calendar, dates>>
write_vars == <<translation, written, files>>

\* What collections.calendars may hold when manage_calendars is called.
PriorCatalogs == {<<>>, <<[id |-> "old", dates |-> {0}]>>}

\* The weekly rows of the read path: the weekdays of its dates and Sunday.
PipeCalendars ==
    [id : Ids,
     monday : BOOLEAN, tuesday : BOOLEAN, wednesday : BOOLEAN,
     thursday : {FALSE}, friday : {FALSE}, saturday : {FALSE},
     sunday : BOOLEAN,
     start_date : PipeDates, end_date : PipeDates]

Init ==
    /\ pc = "start"
    /\ calendar_exists \in BOOLEAN
    /\ calendar_dates_exists \in BOOLEAN
    /\ prior \in PriorCatalogs
    /\ collections = prior
    /\ calendars = <<>>
    /\ nrows = 0
    /\ row_status = "none"
    /\ calendar_date = NoCalendarDate
    /\ non_empty_ids = {}
    /\ installs = 0
    /\ result = "none"
    /\ calendar = NoCalendar
    /\ dates = {}
    /\ translation = NoTranslation
    /\ written = NothingWritten
    /\ files = {}

\* Mutant of Fail: the catalog built so far is left in collections.calendars.
FailInstalling(kind) ==
    /\ pc' = "failed"
    /\ result' = kind
    /\ collections' = calendars
    /\ installs' = installs

\* An error return of manage_calendars (bail!, or ? on an open or on a
\* parse): the function returns before collections.calendars is assigned.
Fail(kind) ==
    /\ pc' = "failed"
    /\ result' = kind
    /\ UNCHANGED <<collections, installs>>

\* collections.calendars = calendars; Ok(())
Install ==
    /\ collections' = calendars
    /\ installs' = installs + 1
    /\ pc' = "done"
    /\ result' = "Ok"

\* manage_calendars up to the reading of calendar.txt: the error when
\* neither file exists, else calendar.txt is opened (which may fail) or
\* skipped with an empty catalog.
ManageCalendars ==
    /\ pc = "start"
    /\ \E opened \in BOOLEAN :
          IF ~calendar_exists /\ ~calendar_dates_exists
          THEN Fail("calendar_dates.txt or calendar.txt not found")
          ELSE IF calendar_exists
          THEN IF opened
               THEN pc' = "parse_calendar"
                    /\ UNCHANGED <<result, collections, installs>>
               ELSE Fail("Error reading calendar.txt")
          ELSE pc' = "calendar_dates"
               /\ UNCHANGED <<result, collections, installs>>
    /\ calendars' = <<>>
    /\ UNCHANGED <<calendar_exists, calendar_dates_exists, prior, nrows,
                   row_status, calendar_date, non_empty_ids>>
    /\ UNCHANGED mat_vars
    /\ UNCHANGED write_vars

\* parse_calendar: one row of calendar.txt.  A row that does not decode,
\* or a push that fails, is the error of the whole read.
ParseCalendarRow ==
    /\ pc = "parse_calendar"
    /\ nrows < MaxRows
    /\ nrows' = nrows + 1
    /\ \E decoded \in BOOLEAN :
          IF decoded
          THEN \E c \in PipeCalendars :
                  LET r == parse_calendar_row(calendars, c)
                  IN  /\ row_status' =
                             IF \E d \in c.start_date..c.end_date : FlagOf(c, d)
                             THEN "ok" ELSE "empty"
                      /\ calendars' = r.calendars
                      /\ non_empty_ids' =
                             IF \E d \in c.start_date..c.end_date : FlagOf(c, d)
                             THEN non_empty_ids \cup {c.id}
                             ELSE non_empty_ids
                      /\ IF r.ok
                         THEN UNCHANGED <<pc, result, collections, installs>>
                         ELSE Fail("identifier already exists")
          ELSE /\ row_status' = "malformed"
               /\ Fail("row")
               /\ UNCHANGED <<calendars, non_empty_ids>>
    /\ UNCHANGED <<calendar_exists, calendar_dates_exists, prior, calendar_date>>
    /\ UNCHANGED mat_vars
    /\ UNCHANGED write_vars

\* parse_calendar: the end of calendar.txt, Ok(calendars).
ParseCalendarEnd ==
    /\ pc = "parse_calendar"
    /\ pc' = "calendar_dates"
    /\ nrows' = 0
    /\ row_status' = "none"
    /\ UNCHANGED <<calendar_exists, calendar_dates_exists, calendars,
                   collections, prior, calendar_date, non_empty_ids, installs,
                   result>>
    /\ UNCHANGED mat_vars
    /\ UNCHANGED write_vars

\* manage_calendars after calendar.txt: calendar_dates.txt is opened (which
\* may fail), or skipped and the catalog is installed as it is.
OpenCalendarDates ==
    /\ pc = "calendar_dates"
    /\ \E opened \in BOOLEAN :
          IF calendar_dates_exists
          THEN IF opened
               THEN pc' = "parse_calendar_dates"
                    /\ UNCHANGED <<result, collections, installs>>
               ELSE Fail("Error reading calendar_dates.txt")
          ELSE Install
    /\ UNCHANGED <<calendar_exists, calendar_dates_exists, calendars, prior,
                   nrows, row_status, calendar_date, non_empty_ids>>
    /\ UNCHANGED mat_vars
    /\ UNCHANGED write_vars

\* parse_calendar_dates: one row of calendar_dates.txt.
ParseCalendarDatesRow ==
    /\ pc = "parse_calendar_dates"
    /\ nrows < MaxRows
    /\ nrows' = nrows + 1
    /\ \E decoded \in BOOLEAN :
          IF decoded
          THEN \E cd \in CalendarDate(Ids, PipeDates) :
                  LET r == parse_calendar_date(calendars, cd)
                  IN  /\ row_status' = "ok"
                      /\ calendar_date' = cd
                      /\ calendars' = r.calendars
                      /\ pc' = IF r.panic THEN "panicked" ELSE pc
                      /\ UNCHANGED <<result, collections, installs>>
          ELSE /\ row_status' = "malformed"
               /\ Fail("row")
               /\ UNCHANGED <<calendars, calendar_date>>
    /\ UNCHANGED <<calendar_exists, calendar_dates_exists, prior, non_empty_ids>>
    /\ UNCHANGED mat_vars
    /\ UNCHANGED write_vars

\* parse_calendar_dates: the end of calendar_dates.txt, Ok(()); the catalog
\* is installed.
ParseCalendarDatesEnd ==
    /\ pc = "parse_calendar_dates"
    /\ Install
    /\ UNCHANGED <<calendar_exists, calendar_dates_exists, calendars, prior,
                   nrows, row_status, calendar_date, non_empty_ids>>
    /\ UNCHANGED mat_vars
    /\ UNCHANGED write_vars

Next ==
    \/ ManageCalendars
    \/ ParseCalendarRow
    \/ ParseCalendarEnd
    \/ OpenCalendarDates
    \/ ParseCalendarDatesRow
    \/ ParseCalendarDatesEnd

Spec == Init /\ [][Next]_vars

\* ------------------------------------------- SpecWrite: write_calendar_dates
\* The catalogs written: the services of Ids, each at most once, in any
\* order; s1 has no date left.
WriteCatalogs ==
    LET c1 == [id |-> "s1", dates |-> {}]
        c2 == [id |-> "s2", dates |-> {0}]
    IN  {<<>>, <<c1>>, <<c2>>, <<c1, c2>>, <<c2, c1>>}

InitWrite ==
    /\ pc = "write"
    /\ calendars \in WriteCatalogs
    /\ nrows = 0
    /\ translation = NoTranslation
    /\ written = NothingWritten
    /\ files = {}
    /\ result = "none"
    /\ calendar = NoCalendar
    /\ dates = {}
    /\ calendar_exists = FALSE
    /\ calendar_dates_exists = FALSE
    /\ collections = <<>>
    /\ prior = <<>>
    /\ row_status = "none"
    /\ calendar_date = NoCalendarDate
    /\ non_empty_ids = {}
    /\ installs = 0

\* write_calendar_dates: the body of the loop for the next service, with
\* what translate returns for it.
WriteService ==
    /\ pc = "write"
    /\ nrows < Len(calendars)
    /\ nrows' = nrows + 1
    /\ \E t \in Translations :
          /\ translation' = t
          /\ written' = write_calendar_dates_loop(written, calendars[nrows + 1], t)
    /\ UNCHANGED <<pc, calendars, files, result, calendar_exists,
                   calendar_dates_exists, collections, prior, row_status,
                   calendar_date, non_empty_ids, installs>>
    /\ UNCHANGED mat_vars

\* write_calendar_dates after the loop: the two files are written.
WriteFiles ==
    /\ pc = "write"
    /\ nrows = Len(calendars)
    /\ \E dates_fault \in Faults, calendar_fault \in Faults :
          LET w == write_calendar_dates_files(files, written, dates_fault,
                                              calendar_fault)
          IN  /\ files' = w.files
              /\ result' = IF w.ok THEN "Ok" ELSE "Err"
              /\ pc' = IF w.ok THEN "done" ELSE "failed"
    /\ UNCHANGED <<calendars, nrows, translation, written, calendar_exists,
                   calendar_dates_exists, collections, prior, row_status,
                   calendar_date, non_empty_ids, installs>>
    /\ UNCHANGED mat_vars

NextWrite == WriteService \/ WriteFiles

SpecWrite == InitWrite /\ [][NextWrite]_vars

\* ------------------------------------------------------------------ claims
\* C1: get_valid_dates returns exactly the dates of [start_date, end_date]
\* whose weekday is flagged: nothing when start_date > end_date, and the
\* two ends themselves when their weekday is flagged.
C1_ValidDatesExact ==
    pc # "record" =>
        /\ dates = {d \in Dates : /\ calendar.start_date <= d
                                  /\ d <= calendar.end_date
                                  /\ FlagOf(calendar, d)}
        /\ (calendar.start_date > calendar.end_date => dates = {})
        /\ (calendar.start_date <= calendar.end_date =>
               /\ (FlagOf(calendar, calendar.start_date)
                      <=> calendar.start_date \in dates)
               /\ (FlagOf(calendar, calendar.end_date)
                      <=> calendar.end_date \in dates))

\* A record spanning more than a week whose two ends are flagged and one
\* day in between is not, once expanded.
C1_Witness ==
    /\ pc = "materialized"
    /\ calendar.end_date - calendar.start_date > 7
    /\ {calendar.start_date, calendar.end_date} \subseteq dates
    /\ \E d \in Dates :
          calendar.start_date < d /\ d < calendar.end_date /\ d \notin dates

\* The flagged weekdays of a record all occur in its range.
AllFlaggedOccur(c) ==
    \A i \in 0..6 :
        FlagOf(c, i) => \E d \in c.start_date..c.end_date : d % 7 = i

\* The weekly row built after the round trip.
RowOf(w) == w.translations[1]

\* C6 as claimed: the round trip of a record with a non-empty expansion
\* gives back the record: same seven flags, same start and end dates.
C6_RoundTripIdentity ==
    (pc = "written" /\ dates # {}) =>
        /\ Len(written.translations) = 1
        /\ RowOf(written) = calendar

\* C6 as amended: the round trip gives a row whose flags are the flagged
\* weekdays that occur in the range and whose dates are the first and the
\* last materialized date, and no exception row; the row is the record
\* itself exactly when start_date and end_date fall on flagged weekdays and
\* every flagged weekday occurs in the range.
C6_RoundTripAmended ==
    (pc = "written" /\ dates # {}) =>
        /\ Len(written.translations) = 1
        /\ written.exceptions = <<>>
        /\ RowOf(written).id = calendar.id
        /\ \A i \in 0..6 :
              FlagOf(RowOf(written), i) <=>
                  /\ FlagOf(calendar, i)
                  /\ \E d \in calendar.start_date..calendar.end_date : d % 7 = i
        /\ RowOf(written).start_date \in dates
        /\ RowOf(written).end_date \in dates
        /\ \A d \in dates :
              RowOf(written).start_date <= d /\ d <= RowOf(written).end_date
        /\ (RowOf(written) = calendar <=>
               /\ FlagOf(calendar, calendar.start_date)
               /\ FlagOf(calendar, calendar.end_date)
               /\ AllFlaggedOccur(calendar))

\* A record with several flags over more than a week that the round trip
\* gives back unchanged.
C6_Witness ==
    /\ pc = "written"
    /\ Cardinality(dates) >= 3
    /\ calendar.end_date - calendar.start_date > 7
    /\ Len(written.translations) = 1
    /\ RowOf(written) = calendar

\* What a catalog holds under an id: how many calendars, and their dates.
Entry(cat, id) ==
    LET S == {i \in 1..Len(cat) : cat[i].id = id}
    IN  [count |-> Cardinality(S), dates |-> UNION {cat[i].dates : i \in S}]

\* A step that processes one decoded row of calendar_dates.txt.
MergeStep ==
    pc = "parse_calendar_dates" /\ nrows' = nrows + 1 /\ row_status' = "ok"

\* C2: one exception record changes the catalog in exactly one of four
\* ways: known id and Add inserts the date, known id and Remove removes
\* it, unknown id and Add appends a calendar holding that one date, unknown
\* id and Remove changes nothing; the other services keep their dates and
\* no error is raised.
C2_MergeStepCases ==
    [][MergeStep =>
        LET id == calendar_date'.service_id
            d == calendar_date'.date
            add == calendar_date'.exception_type = "Add"
            known == Entry(calendars, id).count = 1
        IN  /\ pc' = "parse_calendar_dates"
            /\ result' = result
            /\ \A other \in Ids \ {id} :
                  Entry(calendars', other) = Entry(calendars, other)
            /\ \A i \in 1..Len(calendars) :
                  i <= Len(calendars') /\ calendars'[i].id = calendars[i].id
            /\ (known /\ add =>
                   /\ Len(calendars') = Len(calendars)
                   /\ Entry(calendars', id) =
                          [count |-> 1,
                           dates |-> Entry(calendars, id).dates \cup {d}])
            /\ (known /\ ~add =>
                   /\ Len(calendars') = Len(calendars)
                   /\ Entry(calendars', id) =
                          [count |-> 1,
                           dates |-> Entry(calendars, id).dates \ {d}])
            /\ (~known /\ add =>
                   calendars' = Append(calendars, [id |-> id, dates |-> {d}]))
            /\ (~known /\ ~add => calendars' = calendars)]_vars

\* After three exception rows: a service read from calendar.txt, a service
\* created by an Add, and a Remove as the last row, on the first service.
C2_Witness ==
    /\ pc = "parse_calendar_dates"
    /\ nrows = 3
    /\ Len(calendars) = 2
    /\ calendars[1].id \in non_empty_ids
    /\ calendars[2].id \notin non_empty_ids
    /\ calendar_date.exception_type = "Remove"
    /\ calendar_date.service_id = calendars[1].id
    /\ calendars[1].dates # {}

\* C3: manage_calendars fails when neither file exists and when a row does
\* not decode; a failing run leaves collections.calendars as it was; a
\* successful run assigns the catalog to it exactly once, as its last step.
C3_InstallOnceAtEnd ==
    /\ [](/\ (pc # "done" => collections = prior /\ installs = 0)
          /\ (pc = "done" =>
                 /\ installs = 1
                 /\ collections = calendars
                 /\ result = "Ok"
                 /\ ~ENABLED Next)
          /\ (pc = "failed" => result # "Ok" /\ ~ENABLED Next))
    /\ [][/\ (pc = "start" /\ ~calendar_exists /\ ~calendar_dates_exists =>
                 /\ pc' = "failed"
                 /\ result' = "calendar_dates.txt or calendar.txt not found")
          /\ (row_status' = "malformed" => pc' = "failed")
          /\ (collections' # collections \/ installs' # installs =>
                 /\ pc \in {"calendar_dates", "parse_calendar_dates"}
                 /\ pc' = "done"
                 /\ calendars' = calendars)]_vars

\* A run that fails on a malformed exception row after a catalog of two
\* services has been built.
C3_Witness ==
    /\ pc = "failed"
    /\ row_status = "malformed"
    /\ Len(calendars) = 2
    /\ calendar_date.service_id \in Ids
    /\ prior # <<>>

\* C5: while and after parse_calendar reads its rows, an id is in the
\* catalog iff some row read had that id and a flagged day in its range,
\* and every calendar of the catalog has dates; a row without such a day
\* raises no error.
C5_OnlyNonEmptyExpansions ==
    /\ (pc \in {"parse_calendar", "calendar_dates"} =>
           /\ \A id \in Ids :
                 (\E i \in 1..Len(calendars) : calendars[i].id = id)
                     <=> id \in non_empty_ids
           /\ \A i \in 1..Len(calendars) : calendars[i].dates # {})
    /\ (row_status = "empty" => pc = "parse_calendar")

\* calendar.txt read to its end, one service of two dates in the catalog.
C5_Witness ==
    /\ pc = "calendar_dates"
    /\ calendar_exists
    /\ nrows = 0
    /\ Len(calendars) = 1
    /\ Cardinality(calendars[1].dates) = 2

\* C8: the ids of the catalog only grow, also when a Remove empties a
\* calendar, and the catalog handed over is the one built.
C8_IdsOnlyGrow ==
    [][/\ \A id \in Ids :
             Entry(calendars, id).count > 0 => Entry(calendars', id).count > 0
       /\ (pc' = "done" =>
              \A id \in Ids :
                  Entry(calendars, id).count > 0 =>
                      Entry(collections', id).count > 0)]_vars

\* A finished run whose catalog holds a calendar read from calendar.txt
\* that a Remove has emptied.
C8_Witness ==
    /\ pc = "done"
    /\ calendar_date.exception_type = "Remove"
    /\ \E i \in 1..Len(collections) :
          /\ collections[i].dates = {}
          /\ collections[i].id \in non_empty_ids
          /\ collections[i].id = calendar_date.service_id

\* The dates of service id after r1 and then r2 are merged into cat.
DatesAfter(cat, id, r1, r2) ==
    Entry(parse_calendar_date(parse_calendar_date(cat, r1).calendars,
                              r2).calendars, id).dates

\* C9 as claimed: for an id already in the catalog, any two exception
\* records for it give the same dates in either order.
C9_AnyOrder ==
    pc = "parse_calendar_dates" =>
        \A id \in ids_of(calendars) :
            \A r1, r2 \in CalendarDate({id}, PipeDates) :
                DatesAfter(calendars, id, r1, r2)
                    = DatesAfter(calendars, id, r2, r1)

\* The calendar of service id after r1 and then r2 are merged into cat.
EntryAfter(cat, id, r1, r2) ==
    Entry(parse_calendar_date(parse_calendar_date(cat, r1).calendars,
                              r2).calendars, id)

\* C9 as amended: two exception records for an id give the same calendar
\* in either order, whether or not the id is in the catalog, unless they
\* are an Add and a Remove of the same date; then the date is in the set
\* iff the Add comes last.
C9_AnyOrderButAddRemove ==
    pc = "parse_calendar_dates" =>
        \A id \in Ids :
            \A r1, r2 \in CalendarDate({id}, PipeDates) :
                IF r1.date = r2.date /\ r1.exception_type # r2.exception_type
                THEN r1.date \in DatesAfter(calendars, id, r1, r2)
                         <=> r2.exception_type = "Add"
                ELSE EntryAfter(calendars, id, r1, r2)
                         = EntryAfter(calendars, id, r2, r1)

\* Two exception rows merged into a service that calendar.txt created.
C9_Witness ==
    /\ pc = "parse_calendar_dates"
    /\ nrows = 2
    /\ calendar_date.service_id \in non_empty_ids
    /\ calendar_date.service_id \in ids_of(calendars)
    /\ Cardinality(Entry(calendars, calendar_date.service_id).dates) >= 2

\* C10: the push on the not-found path never fails: no run panics, a
\* lookup that misses means the id is in no calendar of the catalog, and no
\* id is in the catalog twice.
C10_PushNeverFails ==
    /\ pc # "panicked"
    /\ \A id \in Ids :
          /\ Entry(calendars, id).count <= 1
          /\ (get_mut(calendars, id) = 0 => Entry(calendars, id).count = 0)

\* The not-found path taken with another service already in the catalog.
C10_Witness ==
    /\ pc = "parse_calendar_dates"
    /\ Len(calendars) = 2
    /\ calendars[1].id \in non_empty_ids
    /\ calendars[2].id \notin non_empty_ids
    /\ calendar_date.service_id = calendars[2].id
    /\ calendar_date.exception_type = "Add"
    /\ calendars[2].dates = {calendar_date.date}

\* A step of the loop of write_calendar_dates, for one service.
WriteStep == pc = "write" /\ nrows' = nrows + 1

\* C4 as claimed: a service whose translation has operating days and no
\* validity period gets no weekly row, and every service gets one exception
\* row for each of its residual exceptions, the loop going on.
C4_ExceptionsAlwaysEmitted ==
    [][WriteStep =>
        /\ pc' = "write"
        /\ (translation'.operating_days # {}
                /\ ~translation'.validity_period.some =>
               written'.translations = written.translations)
        /\ Len(written'.exceptions) =
               Len(written.exceptions) + Len(translation'.exceptions)
        /\ \A i \in 1..Len(translation'.exceptions) :
              written'.exceptions[Len(written.exceptions) + i] =
                  [service_id |-> calendars[nrows'].id,
                   date |-> translation'.exceptions[i].date,
                   exception_type |-> translation'.exceptions[i].exception_type]
      ]_vars

\* C7: calendar_dates.txt is created iff there is an exception row and
\* calendar.txt iff there is a weekly row, in every run in which no file
\* operation fails; no file is ever created without a row; and a catalog
\* for which no row is produced is written without error and without file,
\* whatever the file system would do.
C7_FilesIffRows ==
    /\ ("calendar_dates.txt" \in files => written.exceptions # <<>>)
    /\ ("calendar.txt" \in files => written.translations # <<>>)
    /\ (pc = "done" =>
           /\ ("calendar_dates.txt" \in files <=> written.exceptions # <<>>)
           /\ ("calendar.txt" \in files <=> written.translations # <<>>))
    /\ (pc \in {"done", "failed"} /\ written = NothingWritten =>
           pc = "done" /\ files = {})

\* A written catalog of two services, the first without dates, where the
\* only row is the weekly row of the second and only calendar.txt is
\* created.
C7_Witness ==
    /\ pc = "done"
    /\ Len(calendars) = 2
    /\ calendars[1].dates = {}
    /\ files = {"calendar.txt"}
    /\ Len(written.translations) = 1
    /\ written.translations[1].id = calendars[2].id

====
